---- MODULE Spec2Model ----
(***************************************************************************)
(* Model of the dosing schedule and reminder engine of tabex-bot.          *)
(*                                                                         *)
(* Time is counted in whole minutes since midnight of the course's start   *)
(* date.  One subject with one active course is modelled; the reminder     *)
(* service's in-memory maps, the stored dose records (table tabex_logs)    *)
(* and the asyncio tasks (scheduling loops, auto-miss timers, one callback *)
(* handler at a time) are the state.  A task's step is the code it runs    *)
(* between two suspension points (awaits).                                 *)
(***************************************************************************)
EXTENDS Integers, Sequences, FiniteSets, TLC

\* ---------------------------------------------------------------- bounds
Horizon == 16       \* minutes of wall-clock time explored after the initial instant
MaxLogs == 3        \* rows of tabex_logs beyond which the loop sends nothing more
MaxStarts == 2      \* calls of start_reminders_for_user
MaxActs == 1        \* callback queries (button presses) of the subject

\* ------------------------------------------------------- program constants
ThrottleMinutes == 15
PostponeMinutes == 5
LoopSleepMinutes == 1
MaxCourseDay == 25
FirstDoseTime == 480
MinutesPerDay == 24 * 60

None == -1

\* ------------------------------------------------------------ phase table
\* interval is int(interval_hours * 60), half is interval_hours / 2 in minutes
TABEX_PHASES_CONFIG ==
  << [phase_number |-> 1, lo |-> 1,  hi |-> 3,  interval |-> 120, half |-> 60,  doses_per_day |-> 6],
     [phase_number |-> 2, lo |-> 4,  hi |-> 12, interval |-> 150, half |-> 75,  doses_per_day |-> 5],
     [phase_number |-> 3, lo |-> 13, hi |-> 16, interval |-> 180, half |-> 90,  doses_per_day |-> 4],
     [phase_number |-> 4, lo |-> 17, hi |-> 20, interval |-> 300, half |-> 150, doses_per_day |-> 3],
     [phase_number |-> 5, lo |-> 21, hi |-> 25, interval |-> 480, half |-> 240, doses_per_day |-> 2] >>

\* the range test without its last day; C22 does not hold with it
is_day_in_phase_strict(p, day) == p.lo <= day /\ day < p.hi

is_day_in_phase(p, day) == p.lo <= day /\ day <= p.hi

\* the lookup falling back to the last phase; C23 does not hold with it
get_phase_for_day_or_last(day) ==
  LET hits == {i \in 1..Len(TABEX_PHASES_CONFIG) : is_day_in_phase(TABEX_PHASES_CONFIG[i], day)}
  IN  IF hits = {} THEN Len(TABEX_PHASES_CONFIG) ELSE CHOOSE i \in hits : \A j \in hits : i <= j

\* 0 stands for "no phase" (Python None)
get_phase_for_day(day) ==
  LET hits == {i \in 1..Len(TABEX_PHASES_CONFIG) : is_day_in_phase(TABEX_PHASES_CONFIG[i], day)}
  IN  IF hits = {} THEN 0 ELSE CHOOSE i \in hits : \A j \in hits : i <= j

\* the slots without the last one; C24 does not hold with it
get_next_dose_time_slots_short(phase, start_time) ==
  [i \in 1..(phase.doses_per_day - 1) |-> (start_time + (i - 1) * phase.interval) % MinutesPerDay]

\* the slots spaced by half the interval; C25 does not hold with it
get_next_dose_time_slots_half(phase, start_time) ==
  [i \in 1..phase.doses_per_day |-> (start_time + (i - 1) * phase.half) % MinutesPerDay]

\* "HH:MM" strings of one day: the date part of start_dt is dropped by strftime
get_next_dose_time_slots(phase, start_time) ==
  [i \in 1..phase.doses_per_day |-> (start_time + (i - 1) * phase.interval) % MinutesPerDay]

days_since_start(t) == (t \div MinutesPerDay) + 1

\* scheduled datetimes (minutes since the start date's midnight) of one day
calculate_daily_schedule(first_dose_time, target_day) ==
  LET ph == get_phase_for_day(target_day)
  IN  IF ph = 0 THEN << >>
      ELSE LET slots == get_next_dose_time_slots(TABEX_PHASES_CONFIG[ph], first_dose_time)
           IN  [i \in 1..Len(slots) |-> (target_day - 1) * MinutesPerDay + slots[i]]

Terminal == {"taken", "missed", "skipped"}

SeqRange(s) == {s[i] : i \in 1..Len(s)}

SetMin(S) == CHOOSE x \in S : \A y \in S : x <= y

\* the lookup built from 'taken' records only; C16 does not hold with it
processed_doses_taken_only(existing_logs) ==
  {existing_logs[i].sched : i \in {j \in 1..Len(existing_logs) : existing_logs[j].status = "taken"}}

\* the lookup built from records of any status; C17 does not hold with it
processed_doses_any_status(existing_logs) ==
  {existing_logs[i].sched : i \in 1..Len(existing_logs)}

\* the (date, time) keys of the records with a terminal status
processed_doses(existing_logs) ==
  {existing_logs[i].sched : i \in {j \in 1..Len(existing_logs) : existing_logs[j].status \in Terminal}}

\* the overdue slots of days 1..last_day, in the order the two loops visit them
RECURSIVE overdue_of_days(_, _, _, _)
overdue_of_days(first_dose_time, existing_logs, t, last_day) ==
  IF last_day <= 0 THEN << >>
  ELSE overdue_of_days(first_dose_time, existing_logs, t, last_day - 1)
         \o SelectSeq(calculate_daily_schedule(first_dose_time, last_day),
                      LAMBDA s : s <= t /\ s \notin processed_doses(existing_logs))

\* the list of overdue slot times
get_overdue_doses(first_dose_time, existing_logs, t) ==
  overdue_of_days(first_dose_time, existing_logs, t, days_since_start(t))

\* the first overdue slot of the list instead of the earliest; C34 does not
\* hold with it
get_next_dose_time_first_overdue(first_dose_time, existing_logs, t) ==
  LET overdue == get_overdue_doses(first_dose_time, existing_logs, t)
      today == calculate_daily_schedule(first_dose_time, days_since_start(t))
      later == {i \in 1..Len(today) : today[i] > t}
      tomorrow == calculate_daily_schedule(first_dose_time, days_since_start(t) + 1)
  IN  IF overdue # << >> THEN overdue[1]
      ELSE IF later # {} THEN today[SetMin(later)]
      ELSE IF days_since_start(t) < MaxCourseDay /\ Len(tomorrow) > 0 THEN tomorrow[1]
      ELSE None

get_next_dose_time(first_dose_time, existing_logs, t) ==
  LET overdue == get_overdue_doses(first_dose_time, existing_logs, t)
      today == calculate_daily_schedule(first_dose_time, days_since_start(t))
      later == {i \in 1..Len(today) : today[i] > t}
      tomorrow == calculate_daily_schedule(first_dose_time, days_since_start(t) + 1)
  IN  IF overdue # << >> THEN SetMin(SeqRange(overdue))
      ELSE IF later # {} THEN today[SetMin(later)]
      ELSE IF days_since_start(t) < MaxCourseDay /\ Len(tomorrow) > 0 THEN tomorrow[1]
      ELSE None

\* the slots the explored window can touch
ModelSlots == SeqRange(calculate_daily_schedule(FirstDoseTime, 1))


\* ------------------------------------------------------------------ state
VARIABLES
  now,                \* wall clock, minutes since the start date's midnight
  t0,                 \* the initial instant of the explored window
  course_status,      \* treatment_courses.status of the subject's course
  active_users,       \* ReminderService.active_users[user_id]
  reminder_tasks,     \* ReminderService.reminder_tasks[user_id]: a loop's number, 0 = no entry
  postponed_time,     \* postponed_reminders[user_id], None = no entry
  postponed_orig,     \* postponed_reminders[f"{user_id}_original_time"], None = no entry
  last_reminder_sent, \* last_reminder_sent[f"{user_id}_{timestamp}"] per slot, None = no entry
  logs,               \* rows of tabex_logs of the course; log_id is the index
  loops,              \* the _reminder_loop tasks ever created, by number
  nextGen,            \* number of loops created so far
  timers,             \* the _schedule_auto_miss tasks ever created, each with the loop that armed it
  handler,            \* the callback handler in flight (updates are handled one at a time)
  acts,               \* callback queries received so far
  notified,           \* history: the last notification sent
  nflip,              \* history: flips at every notification sent
  lastNotifAt,        \* history: per slot, when its last notification was sent
  lastNotifGen,       \* history: per slot, which loop sent its last notification
  firstNotifAt,       \* history: per slot, when its first notification was sent
  lastPostponeAt,     \* history: per slot, when postpone was last called for it
  stopped,            \* history: loops that were registered when stop ran
  first_dose_time,    \* the first dose time the subject entered, minutes after midnight
  overdue_doses,      \* context.user_data['overdue_doses'] of the catch-up, << >> = absent
  next_dose_time,     \* the result of the last get_next_dose_time call
  catchup_req,        \* history: the last catch-up callback query and its outcome
  catchup_buttons,    \* the catch-up buttons on the messages the bot has sent to the chat
  target_day,         \* the day calculate_daily_schedule is asked about
  schedule_calls,     \* the calls of calculate_daily_schedule made so far, with what they returned
  users,              \* rows of users, by telegram id
  courses,            \* rows of treatment_courses; course_id is the index, ids are not reused
  gender_buttons,     \* the subjects whose gender keyboard the bot has sent to the chat
  current_phase,      \* treatment_courses.current_phase of the subject's course
  keyboard,           \* the buttons of the last reminder keyboard sent
  delivered,          \* history: what the callback handler did with the last button pressed
  tabex_logs,         \* with several subjects: status of the record of each course and slot
  user_tasks,         \* with several subjects: the subjects with an entry in reminder_tasks
  postponed_reminders, \* with several subjects: the subjects with a pending postponement
  sent_keys,          \* with several subjects: the keys of last_reminder_sent, << user, slot >>
  caller              \* history: the subject who issued the last operation and its target course

vars == << now, t0, course_status, active_users, reminder_tasks, postponed_time, postponed_orig,
           last_reminder_sent, logs, loops, nextGen, timers, handler, acts,
           notified, nflip, lastNotifAt, lastNotifGen, firstNotifAt, lastPostponeAt, stopped,
           first_dose_time, overdue_doses, next_dose_time, catchup_req, catchup_buttons,
           target_day, schedule_calls, users, courses, gender_buttons, current_phase,
           keyboard, delivered, tabex_logs, user_tasks, postponed_reminders, sent_keys, caller >>

\* the registration state: users, their courses, the gender keyboards sent
reg == << users, courses, gender_buttons >>

\* nobody has registered
RegIdle == users = {} /\ courses = << >> /\ gender_buttons = {}

\* the telegram users talking to the bot
Subjects == {1, 2}

\* the reminder keyboard and the callback query handled last
payload == << keyboard, delivered >>

NoButton == [action |-> "none", course_id |-> None, timestamp |-> None, callback_data |-> << >>]
NoDelivery == [button |-> NoButton, outcome |-> "none", handler |-> "none",
               course_id |-> None, timestamp |-> None]

\* no keyboard was sent
PayloadIdle == keyboard = {} /\ delivered = NoDelivery

\* the service's maps and the dose records of several subjects
crowd == << tabex_logs, user_tasks, postponed_reminders, sent_keys, caller >>

NoCaller == [user |-> 0, course |-> 0, flip |-> FALSE]

\* the telegram ids of two subjects, the ids of their courses, the slots of
\* the morning of day 1
CrowdUsers == {1, 12}
CrowdCourses == {1, 2}
CrowdSlots == {600, 720}

\* no subject has started the program
CrowdIdle ==
  /\ tabex_logs = [c \in CrowdCourses |-> [s \in CrowdSlots |-> "none"]]
  /\ user_tasks = {}
  /\ postponed_reminders = {}
  /\ sent_keys = {}
  /\ caller = NoCaller

multi == << payload, crowd >>
MultiIdle == PayloadIdle /\ CrowdIdle

sched == << first_dose_time, overdue_doses, next_dose_time, catchup_req, catchup_buttons,
            target_day, schedule_calls, reg, multi, current_phase >>

NoRequest == [kind |-> "none", index |-> 0, outcome |-> "none", seq |-> 0]

svc == << active_users, reminder_tasks, postponed_time, postponed_orig, last_reminder_sent >>
hist == << notified, nflip, lastNotifAt, lastNotifGen, firstNotifAt, lastPostponeAt, stopped >>
notifHist == << notified, nflip, lastNotifAt, lastNotifGen, firstNotifAt >>

StartTimes == {590, 600, 652}

NoLog == [sched |-> None, status |-> "none", actual |-> None, phase |-> None]
NoLoop == [pc |-> "absent", wake |-> 0, dose |-> None, first |-> FALSE, at |-> 0]
DoneLoop == [NoLoop EXCEPT !.pc = "done"]
Sleeping(t) == [NoLoop EXCEPT !.pc = "run", !.wake = t]
NoHandler == [kind |-> "none", dose |-> None, log |-> 0, copy |-> NoLog]
NewTimer(g, dose) == [pc |-> "start", gen |-> g, dose |-> dose, wake |-> 0, log |-> 0, copy |-> NoLog]
DoneTimer(tm) == [tm EXCEPT !.pc = "done", !.wake = 0, !.log = 0, !.copy = NoLog]

\* ------------------------------------------------------ the dose record
TabexLog(scheduled_time, status, actual_time, phase) ==
  [sched |-> scheduled_time, status |-> status, actual |-> actual_time, phase |-> phase]

\* TreatmentCourse(current_phase=1) of a new course
InitialPhase == 1

mark_taken(log, t) == [log EXCEPT !.status = "taken", !.actual = t]

\* mark_missed without its assignment of the status; C3 does not hold with it
mark_missed_no_status(log) == log

mark_missed(log) == [log EXCEPT !.status = "missed"]

mark_skipped(log) == [log EXCEPT !.status = "skipped"]

\* INSERT INTO tabex_logs: no uniqueness on (course_id, scheduled_time)
create_log(store, log) == Append(store, log)

\* UPDATE tabex_logs SET actual_time, status WHERE log_id
update_log(store, id, log) ==
  [store EXCEPT ![id] = [@ EXCEPT !.status = log.status, !.actual = log.actual]]

\* The rows _find_log_by_course_and_time can return: the first row of
\* get_logs_by_course_id (ORDER BY scheduled_time DESC) that matches to the
\* minute; rows with equal scheduled_time come in an order SQL leaves open.
\* {0} stands for "not found".
find_log_by_course_and_time(store, dose_time) ==
  LET hits == {i \in 1..Len(store) : store[i].sched = dose_time}
  IN  IF hits = {} THEN {0} ELSE hits

\* the course read without its status check; C14 does not hold with it
is_active_unchecked(status) == TRUE

\* TreatmentCourse.is_active
is_active(status) == status = "active"

\* ------------------------------------------------------------------- Init
\* the state before the first start_reminders_for_user, at one of `times`
InitAt(times) ==
  /\ t0 \in times
  /\ now = t0
  /\ course_status = "active"
  /\ active_users = FALSE
  /\ reminder_tasks = 0
  /\ postponed_time = None
  /\ postponed_orig = None
  /\ last_reminder_sent = [s \in ModelSlots |-> None]
  /\ logs = << TabexLog(FirstDoseTime, "taken", FirstDoseTime, InitialPhase) >>
  /\ loops = [g \in 1..MaxStarts |-> NoLoop]
  /\ nextGen = 0
  /\ timers = << >>
  /\ handler = NoHandler
  /\ acts = 0
  /\ notified = [gen |-> 0, dose |-> None, kind |-> "none", at |-> None]
  /\ nflip = FALSE
  /\ lastNotifAt = [s \in ModelSlots |-> None]
  /\ lastNotifGen = [s \in ModelSlots |-> 0]
  /\ firstNotifAt = [s \in ModelSlots |-> None]
  /\ lastPostponeAt = [s \in ModelSlots |-> None]
  /\ stopped = {}
  /\ first_dose_time = FirstDoseTime
  /\ overdue_doses = << >>
  /\ next_dose_time = None
  /\ catchup_req = NoRequest
  /\ catchup_buttons = {}
  /\ target_day = 1
  /\ schedule_calls = << >>
  /\ RegIdle
  /\ MultiIdle
  /\ current_phase = InitialPhase

Init == InitAt(StartTimes)

\* --------------------------------------------------------- notifications
\* history of a bot.send_message carrying the action buttons of `dose`
Notify(g, dose, kind) ==
  /\ notified' = [gen |-> g, dose |-> dose, kind |-> kind, at |-> now]
  /\ nflip' = ~nflip
  /\ IF dose \in ModelSlots
       THEN /\ lastNotifAt' = [lastNotifAt EXCEPT ![dose] = now]
            /\ lastNotifGen' = [lastNotifGen EXCEPT ![dose] = g]
            /\ firstNotifAt' = [firstNotifAt EXCEPT ![dose] = IF @ = None THEN now ELSE @]
       ELSE UNCHANGED << lastNotifAt, lastNotifGen, firstNotifAt >>

\* --------------------------------------------------------- start and stop
\* stop without task.cancel(); C10 does not hold with it
CancelIgnored(loop) == loop

\* task.cancel() that only reaches a sleeping task; C13 does not hold with it
CancelSleeping(loop) == IF loop.pc = "run" THEN DoneLoop ELSE loop

\* task.cancel(): CancelledError is raised at the await the task is suspended on
Cancel(loop) == DoneLoop


\* the body of stop_reminders_for_user: the four maps after it
StopEffect ==
  /\ loops' = IF reminder_tasks # 0
                 THEN [loops EXCEPT ![reminder_tasks] = Cancel(@)]
                 ELSE loops
  /\ postponed_time' = None
  /\ last_reminder_sent' = [s \in ModelSlots |-> None]
  /\ stopped' = IF reminder_tasks # 0 THEN stopped \cup {reminder_tasks} ELSE stopped

stop_reminders_for_user ==
  /\ handler.kind = "none"
  /\ nextGen > 0
  /\ active_users' = FALSE
  /\ reminder_tasks' = 0
  /\ StopEffect
  /\ UNCHANGED << now, t0, course_status, sched, postponed_orig, logs, nextGen, timers, handler, acts,
                  notifHist, lastPostponeAt >>

\* start_reminders_for_user as its two callers run it: _start_normal_program
\* (no overdue slot) and _finish_catchup_and_start_program after the last
\* overdue slot was postponed (postpone_last), which then sets the deadline.
start_reminders_for_user(postpone_last) ==
  LET overdue == get_overdue_doses(FirstDoseTime, logs, now)
      g == nextGen + 1
  IN  /\ handler.kind = "none"
      /\ nextGen < MaxStarts
      /\ is_active(course_status)
      /\ IF postpone_last THEN Len(overdue) = 1 ELSE overdue = << >>
      /\ active_users' = TRUE
      /\ nextGen' = g
      /\ reminder_tasks' = g
      /\ loops' = [(IF reminder_tasks # 0
                      THEN [loops EXCEPT ![reminder_tasks] = Cancel(@)]
                      ELSE loops) EXCEPT ![g] = Sleeping(now)]
      /\ postponed_time' = IF postpone_last THEN now + PostponeMinutes ELSE None
      /\ last_reminder_sent' = [s \in ModelSlots |-> None]
      /\ stopped' = IF reminder_tasks # 0 THEN stopped \cup {reminder_tasks} ELSE stopped
      /\ UNCHANGED << now, t0, course_status, sched, postponed_orig, logs, timers, handler, acts,
                      notifHist, lastPostponeAt >>

\* ------------------------------------------------------- the reminder loop
\* a cursor kept in memory: a slot already notified is passed over; C33 does
\* not hold with it
loop_next_dose_cached(throttle, store, t) ==
  LET next == get_next_dose_time(FirstDoseTime, store, t)
  IN  IF next \in DOMAIN throttle /\ throttle[next] # None THEN None ELSE next

\* the slot a loop pass selects: read from the course and the stored records,
\* the in-memory maps of the service are not consulted
loop_next_dose(throttle, store, t) == get_next_dose_time(FirstDoseTime, store, t)

can_send_reminder(last_sent, t) ==
  last_sent = None \/ t - last_sent >= ThrottleMinutes

\* the loop is about to enter _send_dose_reminder
WantsSend(g) ==
  /\ active_users
  /\ is_active(course_status)
  /\ postponed_time = None
  /\ LET next == loop_next_dose(last_reminder_sent, logs, now)
     IN  /\ next # None
         /\ next <= now
         /\ can_send_reminder(last_reminder_sent[next], now)

LoopRunnable(g) ==
  /\ loops[g].pc = "run"
  /\ loops[g].wake <= now
  /\ WantsSend(g) => Len(logs) < MaxLogs

\* one pass of the while loop up to its next await: a sleep, or the first
\* await inside _send_dose_reminder
reminder_loop_iter(g) ==
  /\ LoopRunnable(g)
  /\ IF ~active_users
       THEN /\ loops' = [loops EXCEPT ![g] = DoneLoop]
            /\ UNCHANGED << postponed_time, postponed_orig, notifHist >>
     ELSE IF ~is_active(course_status)
       THEN \* the course re-read at the top of the iteration: break
            /\ loops' = [loops EXCEPT ![g] = DoneLoop]
            /\ UNCHANGED << postponed_time, postponed_orig, notifHist >>
     ELSE IF postponed_time # None
       THEN IF now >= postponed_time
              THEN \* _send_postponed_reminder: buttons carry the original slot, or now
                   /\ Notify(g, IF postponed_orig # None THEN postponed_orig ELSE now, "postponed")
                   /\ postponed_time' = None
                   /\ postponed_orig' = None
                   /\ loops' = [loops EXCEPT ![g] = Sleeping(now + LoopSleepMinutes)]
              ELSE /\ loops' = [loops EXCEPT ![g] = Sleeping(now + LoopSleepMinutes)]
                   /\ UNCHANGED << postponed_time, postponed_orig, notifHist >>
     ELSE LET next == loop_next_dose(last_reminder_sent, logs, now)
          IN  /\ UNCHANGED << postponed_time, postponed_orig, notifHist >>
              /\ IF next = None
                   THEN loops' = [loops EXCEPT ![g] = DoneLoop]
                 ELSE IF next > now
                   THEN loops' = [loops EXCEPT ![g] = Sleeping(now + LoopSleepMinutes)]
                 ELSE IF can_send_reminder(last_reminder_sent[next], now)
                   THEN loops' = [loops EXCEPT ![g] =
                                    [pc |-> "send", wake |-> 0, dose |-> next,
                                     first |-> (last_reminder_sent[next] = None), at |-> now]]
                 ELSE loops' = [loops EXCEPT ![g] = Sleeping(now + LoopSleepMinutes)]
  /\ UNCHANGED << now, t0, course_status, sched, active_users, reminder_tasks, last_reminder_sent, logs,
                  nextGen, timers, handler, acts, lastPostponeAt, stopped >>

\* _send_dose_reminder after its read of the logs: bot.send_message
send_dose_reminder(g) ==
  /\ loops[g].pc = "send"
  /\ Notify(g, loops[g].dose, "regular")
  /\ loops' = [loops EXCEPT ![g].pc = "create"]
  /\ UNCHANGED << now, t0, course_status, sched, svc, logs, nextGen, timers, handler, acts, lastPostponeAt, stopped >>

\* whether this notification arms an auto-miss timer
arms_auto_miss(loop) == loop.first

\* create_log of the scheduled record, then back in the loop: the throttle
\* entry, the auto-miss timer of a first notification, sleep(60)
send_dose_reminder_done(g) ==
  /\ loops[g].pc = "create"
  /\ logs' = create_log(logs, TabexLog(loops[g].dose, "scheduled", None, current_phase))
  /\ last_reminder_sent' = [last_reminder_sent EXCEPT ![loops[g].dose] = loops[g].at]
  /\ timers' = IF arms_auto_miss(loops[g])
                 THEN Append(timers, NewTimer(g, loops[g].dose))
                 ELSE timers
  /\ loops' = [loops EXCEPT ![g] = Sleeping(now + LoopSleepMinutes)]
  /\ UNCHANGED << now, t0, course_status, sched, active_users, reminder_tasks, postponed_time, postponed_orig,
                  nextGen, handler, acts, hist >>


\* ------------------------------------------------------ the auto-miss timer
\* auto_miss_time without the half interval; C9 does not hold with it
auto_miss_time_no_delay(dose_time, t) ==
  IF get_phase_for_day(days_since_start(t)) = 0 THEN None ELSE dose_time

\* auto_miss_time = dose_time + timedelta(hours=interval_hours / 2), with the
\* phase of the course's current day; None when that day has no phase
auto_miss_time(dose_time, t) ==
  LET ph == get_phase_for_day(days_since_start(t))
  IN  IF ph = 0 THEN None ELSE dose_time + TABEX_PHASES_CONFIG[ph].half

\* whether the timer leaves the record it found alone
auto_miss_skips(log) == log.status = "taken"

\* after the sleep: the active check, the read of the record, the is_taken check
AutoMissCheck(k) ==
  IF ~active_users
    THEN timers' = [timers EXCEPT ![k] = DoneTimer(timers[k])]
    ELSE \E id \in find_log_by_course_and_time(logs, timers[k].dose) :
           IF id = 0 \/ auto_miss_skips(logs[id])
             THEN timers' = [timers EXCEPT ![k] = DoneTimer(timers[k])]
             ELSE timers' = [timers EXCEPT ![k] =
                               [timers[k] EXCEPT !.pc = "write", !.wake = 0, !.log = id,
                                                 !.copy = mark_missed(logs[id])]]

\* the timer task's first step: it sleeps when its time is still ahead
schedule_auto_miss_start(k) ==
  /\ timers[k].pc = "start"
  /\ LET amt == auto_miss_time(timers[k].dose, now)
     IN  IF amt = None
           THEN timers' = [timers EXCEPT ![k] = DoneTimer(timers[k])]
         ELSE IF amt > now
           THEN timers' = [timers EXCEPT ![k].pc = "sleep", ![k].wake = amt]
         ELSE AutoMissCheck(k)
  /\ UNCHANGED << now, t0, course_status, sched, svc, logs, loops, nextGen, handler, acts, hist >>

schedule_auto_miss_wake(k) ==
  /\ timers[k].pc = "sleep"
  /\ timers[k].wake <= now
  /\ AutoMissCheck(k)
  /\ UNCHANGED << now, t0, course_status, sched, svc, logs, loops, nextGen, handler, acts, hist >>

\* update_log of the copy marked missed
schedule_auto_miss_write(k) ==
  /\ timers[k].pc = "write"
  /\ logs' = update_log(logs, timers[k].log, timers[k].copy)
  /\ timers' = [timers EXCEPT ![k] = DoneTimer(timers[k])]
  /\ UNCHANGED << now, t0, course_status, sched, svc, loops, nextGen, handler, acts, hist >>

\* --------------------------------------------------- the subject's actions
\* a button of a notification of this slot can be pressed
HasButtons(s) == firstNotifAt[s] # None

CanPress == handler.kind = "none" /\ acts < MaxActs

\* handle_dose_taken up to update_log: the record is read and marked in memory
handle_dose_taken(s) ==
  /\ CanPress
  /\ HasButtons(s)
  /\ \E id \in find_log_by_course_and_time(logs, s) :
       handler' = [kind |-> "taken", dose |-> s, log |-> id,
                   copy |-> IF id = 0 THEN NoLog ELSE mark_taken(logs[id], now)]
  /\ acts' = acts + 1
  /\ UNCHANGED << now, t0, course_status, sched, svc, logs, loops, nextGen, timers, hist >>

\* handle_dose_skip up to update_log
handle_dose_skip(s) ==
  /\ CanPress
  /\ HasButtons(s)
  /\ \E id \in find_log_by_course_and_time(logs, s) :
       handler' = [kind |-> "skip", dose |-> s, log |-> id,
                   copy |-> IF id = 0 THEN NoLog ELSE mark_skipped(logs[id])]
  /\ acts' = acts + 1
  /\ UNCHANGED << now, t0, course_status, sched, svc, logs, loops, nextGen, timers, hist >>

\* handle_dose_skip's count of the records that are missed or skipped
missed_count(store) ==
  Cardinality({i \in 1..Len(store) : store[i].status \in {"missed", "skipped"}})

\* a course failed by its first missed or skipped dose; C32 does not hold with it
course_status_failing_on_miss(status, count) ==
  IF count >= 1 THEN "failed" ELSE status

\* the course's status after handle_dose_skip has counted: the count only
\* chooses the reply, the course is not written
course_status_after_skip(status, count) == status

\* the rest of handle_dose_taken / handle_dose_skip: update_log, then the
\* throttle entry of the slot is dropped
handle_dose_finish ==
  /\ handler.kind \in {"taken", "skip"}
  /\ logs' = IF handler.log # 0 THEN update_log(logs, handler.log, handler.copy) ELSE logs
  /\ course_status' = IF handler.kind = "skip"
                         THEN course_status_after_skip(course_status, missed_count(logs'))
                         ELSE course_status
  /\ last_reminder_sent' = [last_reminder_sent EXCEPT ![handler.dose] = None]
  /\ handler' = NoHandler
  /\ UNCHANGED << now, t0, sched, active_users, reminder_tasks, postponed_time, postponed_orig,
                  loops, nextGen, timers, acts, hist >>

\* handle_dose_postpone: after its two reads it runs to the end without an await
handle_dose_postpone(s) ==
  /\ CanPress
  /\ HasButtons(s)
  /\ postponed_time' = now + PostponeMinutes
  /\ postponed_orig' = s
  /\ last_reminder_sent' = [last_reminder_sent EXCEPT ![s] = None]
  /\ lastPostponeAt' = [lastPostponeAt EXCEPT ![s] = now]
  /\ acts' = acts + 1
  /\ UNCHANGED << now, t0, course_status, sched, active_users, reminder_tasks, logs, loops, nextGen, timers,
                  handler, notifHist, stopped >>

\* ------------------------------------------------------------ the course
\* TreatmentRepository._update_status: the stored course leaves 'active'
\* (complete_course, fail_course, pause_course)
update_status ==
  /\ is_active(course_status)
  /\ nextGen > 0
  /\ handler.kind = "none"
  /\ course_status' = "completed"
  /\ UNCHANGED << now, t0, sched, svc, logs, loops, nextGen, timers, handler, acts, hist >>

\* -------------------------------------------------------------------- time
\* a task that can run now runs before the minute is over; the window opens
\* with the first start_reminders_for_user
TaskReady ==
  \/ \E g \in 1..MaxStarts : LoopRunnable(g) \/ loops[g].pc \in {"send", "create"}
  \/ \E k \in 1..Len(timers) :
        \/ timers[k].pc \in {"start", "write"}
        \/ timers[k].pc = "sleep" /\ timers[k].wake <= now
  \/ handler.kind # "none"

Tick ==
  /\ ~TaskReady
  /\ nextGen > 0
  /\ now < t0 + Horizon
  /\ now' = now + 1
  /\ UNCHANGED << t0, course_status, sched, svc, logs, loops, nextGen, timers, handler, acts, hist >>

Next ==
  \/ \E pp \in BOOLEAN : start_reminders_for_user(pp)
  \/ stop_reminders_for_user
  \/ \E g \in 1..MaxStarts : reminder_loop_iter(g)
  \/ \E g \in 1..MaxStarts : send_dose_reminder(g)
  \/ \E g \in 1..MaxStarts : send_dose_reminder_done(g)
  \/ \E k \in 1..Len(timers) : schedule_auto_miss_start(k)
  \/ \E k \in 1..Len(timers) : schedule_auto_miss_wake(k)
  \/ \E k \in 1..Len(timers) : schedule_auto_miss_write(k)
  \/ \E s \in ModelSlots : handle_dose_taken(s)
  \/ \E s \in ModelSlots : handle_dose_skip(s)
  \/ \E s \in ModelSlots : handle_dose_postpone(s)
  \/ handle_dose_finish
  \/ update_status
  \/ Tick

Spec == Init /\ [][Next]_vars

\* ======================================= schedule functions and catch-up
\* A second specification: the subject registers, answers the first-dose
\* question at some later instant (or already has records), and the schedule
\* functions are applied to what is stored.
FirstDoseTimes == {480, 1200}

QueryTimes == << 60, 652, 1380, 3605, 4805, 35940 >>

\* every computed slot of days 1..today at or before t, in schedule order
PastSlots(fdt, t) == overdue_of_days(fdt, << >>, t, days_since_start(t))

StatusOf(i) == IF i % 3 = 0 THEN "taken" ELSE IF i % 3 = 1 THEN "missed" ELSE "skipped"

\* the records of a subject who resolved every past slot but the last `open`,
\* which have no record or (reminded) a record still scheduled
AnsweredLogs(fdt, t, open, reminded) ==
  LET past == PastSlots(fdt, t)
      n == IF Len(past) > open THEN Len(past) - open ELSE 0
      StatusAt(i) == IF i > n THEN "scheduled" ELSE StatusOf(i)
  IN  [i \in 1..(IF reminded THEN Len(past) ELSE n) |->
         TabexLog(past[i], StatusAt(i), IF StatusAt(i) = "taken" THEN past[i] ELSE None, InitialPhase)]

\* callback data of one inline button
Button(kind, index) == [kind |-> kind, index |-> index]

\* the buttons of _ask_about_dose for question dose_index of total_doses
AskButtons(dose_index, total_doses) ==
  {Button("taken", dose_index), Button("missed", dose_index)}
    \cup (IF dose_index = total_doses - 1 THEN {Button("postpone", dose_index)} ELSE {})

\* the unanswered question of an earlier registration that /quit deleted: its
\* message, with a single overdue slot, is still in the chat
StaleButtons == AskButtons(0, 1)

SchedInit ==
  /\ first_dose_time \in FirstDoseTimes
  /\ t0 \in SeqRange(QueryTimes)
  /\ now = t0
  /\ logs \in {<< >>} \cup {AnsweredLogs(first_dose_time, t0, open, reminded) :
                                open \in 0..2, reminded \in BOOLEAN}
  /\ course_status = "active"
  /\ active_users = FALSE
  /\ reminder_tasks = 0
  /\ postponed_time = None
  /\ postponed_orig = None
  /\ last_reminder_sent = [s \in ModelSlots |-> None]
  /\ loops = [g \in 1..MaxStarts |-> NoLoop]
  /\ nextGen = 0
  /\ timers = << >>
  /\ handler = NoHandler
  /\ acts = 0
  /\ notified = [gen |-> 0, dose |-> None, kind |-> "none", at |-> None]
  /\ nflip = FALSE
  /\ lastNotifAt = [s \in ModelSlots |-> None]
  /\ lastNotifGen = [s \in ModelSlots |-> 0]
  /\ firstNotifAt = [s \in ModelSlots |-> None]
  /\ lastPostponeAt = [s \in ModelSlots |-> None]
  /\ stopped = {}
  /\ overdue_doses = << >>
  /\ next_dose_time = None
  /\ catchup_req = NoRequest
  /\ catchup_buttons \in {{}, StaleButtons}
  /\ target_day = days_since_start(t0)
  /\ schedule_calls = << >>
  /\ RegIdle
  /\ MultiIdle
  /\ current_phase = InitialPhase

\* start_reminders_for_user called for a subject whose program has not run yet
StartProgram(postpone_last) ==
  /\ active_users' = TRUE
  /\ nextGen' = nextGen + 1
  /\ reminder_tasks' = nextGen + 1
  /\ loops' = [loops EXCEPT ![nextGen + 1] = Sleeping(now)]
  /\ postponed_time' = IF postpone_last THEN now + PostponeMinutes ELSE None
  /\ UNCHANGED << postponed_orig, last_reminder_sent >>

\* the first-dose-time message of a registered subject whose course has no
\* record yet: the first dose is stored as taken, then catch-up or start
handle_first_dose_time ==
  LET first_time == (days_since_start(now) - 1) * MinutesPerDay + first_dose_time
      first_dose_log == TabexLog(first_time, "taken", first_time, current_phase)
      overdue == get_overdue_doses(first_dose_time, << first_dose_log >>, now)
  IN  /\ logs = << >>
      /\ nextGen = 0
      /\ logs' = create_log(logs, first_dose_log)
      /\ IF first_time < now /\ overdue # << >>
           THEN \* _start_interactive_catchup: question 0 is shown
                /\ overdue_doses' = overdue
                /\ catchup_buttons' = catchup_buttons \cup AskButtons(0, Len(overdue))
                /\ UNCHANGED svc
                /\ UNCHANGED << loops, nextGen >>
           ELSE \* _start_normal_program
                /\ StartProgram(FALSE)
                /\ UNCHANGED << overdue_doses, catchup_buttons >>
      /\ UNCHANGED << now, t0, course_status, reg, multi, current_phase, target_day, schedule_calls, first_dose_time, next_dose_time, catchup_req,
                      timers, handler, acts, hist >>

Request(kind, index, outcome) ==
  [kind |-> kind, index |-> index, outcome |-> outcome, seq |-> acts + 1]

\* _handle_catchup_taken and _handle_catchup_missed: the record is handed to
\* TabexRepository.create, which the repository does not define; the
\* AttributeError is caught by the handler's except clause
handle_catchup_answer(kind, dose_index) ==
  /\ acts < MaxActs
  /\ acts' = acts + 1
  /\ catchup_req' = Request(kind, dose_index,
                            IF overdue_doses = << >> THEN "no_data"
                            ELSE IF dose_index >= Len(overdue_doses) THEN "bad_index"
                            ELSE "error")
  /\ UNCHANGED << now, t0, course_status, reg, multi, current_phase, target_day, schedule_calls, first_dose_time, overdue_doses, next_dose_time,
                  catchup_buttons, svc, logs, loops, nextGen, timers, handler, hist >>

\* the last-dose test with every index passing; C20 does not hold with it
is_last_dose_any(dose_index, total_doses) == TRUE

\* the index of the last overdue dose
is_last_dose(dose_index, total_doses) == dose_index = total_doses - 1

\* _handle_catchup_postpone
handle_catchup_postpone(dose_index) ==
  /\ acts < MaxActs
  /\ acts' = acts + 1
  /\ IF overdue_doses = << >>
       THEN /\ catchup_req' = Request("postpone", dose_index, "no_data")
            /\ UNCHANGED << overdue_doses, svc, loops, nextGen >>
     ELSE IF ~is_last_dose(dose_index, Len(overdue_doses))
       THEN /\ catchup_req' = Request("postpone", dose_index, "rejected")
            /\ UNCHANGED << overdue_doses, svc, loops, nextGen >>
     ELSE \* _finish_catchup_and_start_program(postpone_last = True)
            /\ catchup_req' = Request("postpone", dose_index, "accepted")
            /\ overdue_doses' = << >>
            /\ StartProgram(TRUE)
  /\ UNCHANGED << now, t0, course_status, reg, multi, current_phase, target_day, schedule_calls, first_dose_time, next_dose_time, catchup_buttons,
                  logs, timers, handler, hist >>

\* the loop's call of get_next_dose_time on the stored records
reminder_loop_next_dose ==
  /\ next_dose_time' = get_next_dose_time(first_dose_time, logs, now)
  /\ UNCHANGED << now, t0, course_status, reg, multi, current_phase, target_day, schedule_calls, first_dose_time, overdue_doses, catchup_req,
                  catchup_buttons, svc, logs, loops, nextGen, timers, handler, acts, hist >>

\* the subject's answer to the reminder of the due slot the loop found
resolve_next_dose(status) ==
  /\ acts < MaxActs
  /\ next_dose_time # None
  /\ next_dose_time <= now
  /\ logs' = create_log(logs, TabexLog(next_dose_time, status,
                                       IF status = "taken" THEN now ELSE None, current_phase))
  /\ acts' = acts + 1
  /\ UNCHANGED << now, t0, course_status, sched, svc, loops, nextGen, timers, handler, hist >>

\* the clock moves on to the next instant the functions are queried at
advance_clock ==
  /\ \E i \in 1..Len(QueryTimes) :
        /\ QueryTimes[i] > now
        /\ \A j \in 1..Len(QueryTimes) : QueryTimes[j] > now => QueryTimes[i] <= QueryTimes[j]
        /\ now' = QueryTimes[i]
  /\ UNCHANGED << t0, course_status, sched, svc, logs, loops, nextGen, timers, handler, acts, hist >>

SchedNext ==
  \/ handle_first_dose_time
  \/ \E b \in catchup_buttons : b.kind \in {"taken", "missed"} /\ handle_catchup_answer(b.kind, b.index)
  \/ \E b \in catchup_buttons : b.kind = "postpone" /\ handle_catchup_postpone(b.index)
  \/ reminder_loop_next_dose
  \/ \E status \in {"taken", "skipped"} : resolve_next_dose(status)
  \/ advance_clock

SchedSpec == SchedInit /\ [][SchedNext]_vars

\* =============================================== the daily schedule alone
\* A third specification: calculate_daily_schedule is called for one course,
\* first-dose time and day, at different current times.
MaxCalls == 2       \* calls of calculate_daily_schedule

DayInputs == -1..27

DoseSchedule(dose_number, scheduled_time, phase, day, is_overdue) ==
  [dose_number |-> dose_number, scheduled_time |-> scheduled_time, phase |-> phase,
   day |-> day, is_overdue |-> is_overdue]

\* the list built with the date taken from the current time instead of the
\* course's start date; C27 does not hold with it
daily_dose_schedules_from_today(fdt, day, t) ==
  LET ph == get_phase_for_day(day)
      slots == IF ph = 0 THEN << >> ELSE get_next_dose_time_slots(TABEX_PHASES_CONFIG[ph], fdt)
  IN  [i \in 1..Len(slots) |->
         DoseSchedule(i, (days_since_start(t) - 1) * MinutesPerDay + slots[i],
                      TABEX_PHASES_CONFIG[ph].phase_number, day, FALSE)]

\* the DoseSchedule objects calculate_daily_schedule returns when called at t
daily_dose_schedules(fdt, day, t) ==
  LET times == calculate_daily_schedule(fdt, day)
      ph == get_phase_for_day(day)
  IN  [i \in 1..Len(times) |->
         DoseSchedule(i, times[i], TABEX_PHASES_CONFIG[ph].phase_number, day,
                      times[i] < t /\ day <= days_since_start(t))]

\* 00:00, 08:00, 20:00 and 23:59
DailyFirstDoseTimes == {0, 480, 1200, 1439}

PhaseInit ==
  /\ first_dose_time \in DailyFirstDoseTimes
  /\ target_day \in DayInputs
  /\ t0 \in SeqRange(QueryTimes)
  /\ now = t0
  /\ schedule_calls = << >>
  /\ RegIdle
  /\ MultiIdle
  /\ current_phase = InitialPhase
  /\ logs = << >>
  /\ course_status = "active"
  /\ active_users = FALSE
  /\ reminder_tasks = 0
  /\ postponed_time = None
  /\ postponed_orig = None
  /\ last_reminder_sent = [s \in ModelSlots |-> None]
  /\ loops = [g \in 1..MaxStarts |-> NoLoop]
  /\ nextGen = 0
  /\ timers = << >>
  /\ handler = NoHandler
  /\ acts = 0
  /\ notified = [gen |-> 0, dose |-> None, kind |-> "none", at |-> None]
  /\ nflip = FALSE
  /\ lastNotifAt = [s \in ModelSlots |-> None]
  /\ lastNotifGen = [s \in ModelSlots |-> 0]
  /\ firstNotifAt = [s \in ModelSlots |-> None]
  /\ lastPostponeAt = [s \in ModelSlots |-> None]
  /\ stopped = {}
  /\ overdue_doses = << >>
  /\ next_dose_time = None
  /\ catchup_req = NoRequest
  /\ catchup_buttons = {}

\* one call of calculate_daily_schedule(course, first_dose_time, target_day)
calculate_daily_schedule_call ==
  /\ Len(schedule_calls) < MaxCalls
  /\ schedule_calls' = Append(schedule_calls,
                              [at |-> now,
                               phase |-> get_phase_for_day(target_day),
                               slots |-> daily_dose_schedules(first_dose_time, target_day, now)])
  /\ UNCHANGED << now, t0, course_status, reg, multi, current_phase, target_day, first_dose_time, overdue_doses, next_dose_time,
                  catchup_req, catchup_buttons, svc, logs, loops, nextGen, timers, handler, acts, hist >>

PhaseNext ==
  \/ calculate_daily_schedule_call
  \/ advance_clock

PhaseSpec == PhaseInit /\ [][PhaseNext]_vars




\* ================================================================ claims
TimerWrites == \E k \in 1..Len(timers) : timers[k].pc = "write" /\ timers'[k].pc = "done"

LogIds == 1..Len(logs)

\* C1: acknowledge and the auto-miss timer racing on one dose record record
\* exactly one transition: a record that is 'taken' is never 'missed' afterwards.
C1_TakenNeverMissed ==
  [][\A i \in LogIds : logs[i].status = "taken" => logs'[i].status # "missed"]_vars

\* C2: a transition operation applied to a record whose status is already
\* terminal leaves its status and its actual-action time unchanged.
C2_TerminalUnchanged ==
  [][\A i \in LogIds : logs[i].status \in Terminal => logs'[i] = logs[i]]_vars

\* C3: a record that has left 'scheduled' never has status 'scheduled' again:
\* no step writes 'scheduled' into an existing record, and no record disappears.
C3_NeverBackToScheduled ==
  [][/\ Len(logs') >= Len(logs)
     /\ \A i \in LogIds : logs[i].status # "scheduled" => logs'[i].status # "scheduled"]_vars

\* C3 witness: a record the loop created was acknowledged and the timer armed
\* for its slot has since run to its end.
C3_Witness ==
  \E i \in LogIds : /\ i > 1
                    /\ logs[i].status = "taken"
                    /\ handler.kind = "none"
                    /\ \E k \in 1..Len(timers) :
                          timers[k].dose = logs[i].sched /\ timers[k].pc = "done"

\* C4: once the subject has declined or acknowledged a slot, the auto-miss
\* timer armed for it never changes the record.
C4_TimerLeavesResolved ==
  [][TimerWrites =>
       \A i \in LogIds : logs[i].status \in {"skipped", "taken"} => logs'[i] = logs[i]]_vars

\* C5: at most one dose record exists per (course, scheduled slot time).
C5_OneRecordPerSlot ==
  \A i, j \in LogIds : i # j => logs[i].sched # logs[j].sched


RecordsOf(store, s) == {i \in 1..Len(store) : store[i].sched = s}

Sent == nflip' # nflip

\* C6: after the subject postpones a notified slot no further dose record is
\* created for it, and no notification for it is sent earlier than 5 minutes
\* after the postpone call.
C6_PostponeKeepsOneRecord ==
  [][\A s \in ModelSlots : lastPostponeAt[s] # None =>
        /\ Cardinality(RecordsOf(logs', s)) <= Cardinality(RecordsOf(logs, s))
        /\ (Sent /\ notified'.dose = s) => now' >= lastPostponeAt[s] + PostponeMinutes]_vars

PostponedSince(s) == lastPostponeAt[s] # None /\ lastPostponeAt[s] >= lastNotifAt[s]

\* C7: a loop that sent a notification for a slot less than 15 minutes ago
\* sends no other notification for that slot unless the subject has postponed
\* it since.
C7_Throttle ==
  [][Sent /\ notified'.dose \in ModelSlots =>
       LET s == notified'.dose
       IN  ~ /\ lastNotifAt[s] # None
             /\ lastNotifGen[s] = notified'.gen
             /\ now' - lastNotifAt[s] < ThrottleMinutes
             /\ ~PostponedSince(s)]_vars

TimersOf(g, s) == {k \in 1..Len(timers) : timers[k].gen = g /\ timers[k].dose = s}

\* C8: a loop arms at most one auto-miss timer per slot.
C8_OneTimerPerSlot ==
  \A g \in 1..MaxStarts : \A s \in ModelSlots : Cardinality(TimersOf(g, s)) <= 1

BecomesMissed(i) == logs[i].status # "missed" /\ logs'[i].status = "missed"

AutoMissDelay(t) == TABEX_PHASES_CONFIG[get_phase_for_day(days_since_start(t))].half

\* C9 as claimed: the timer marks a record 'missed' no earlier than
\* interval_hours / 2 after the slot's first notification.
C9_HalfIntervalAfterNotice ==
  [][\A i \in LogIds : BecomesMissed(i) =>
        now' >= firstNotifAt[logs[i].sched] + AutoMissDelay(now)]_vars

\* C9 as amended: the timer marks a record 'missed' no earlier than
\* interval_hours / 2 after the slot's scheduled time.
C9_HalfIntervalAfterSlot ==
  [][\A i \in LogIds : BecomesMissed(i) => now' >= logs[i].sched + AutoMissDelay(now)]_vars

\* C9 witness: the timer of a slot first notified late has slept to its time
\* and marked the record, less than half an interval after that notification.
C9_Witness ==
  \E i \in LogIds :
     /\ logs[i].status = "missed"
     /\ firstNotifAt[logs[i].sched] > logs[i].sched
     /\ firstNotifAt[logs[i].sched] < logs[i].sched + AutoMissDelay(now)
     /\ now < firstNotifAt[logs[i].sched] + AutoMissDelay(now)

\* C10: once stop_reminders_for_user has run, the loop that was registered
\* for the subject sends no further notification, regular or postponed.
C10_NoNoticeAfterStop ==
  [][Sent => notified'.gen \notin stopped]_vars

\* C10 witness: a loop was stopped after it had notified, reminders were
\* started again, and the last notification comes from the new loop.
C10_Witness ==
  /\ stopped # {}
  /\ \E s \in ModelSlots : firstNotifAt[s] # None /\ firstNotifAt[s] < notified.at
  /\ notified.gen # 0
  /\ notified.gen \notin stopped


\* C11: stopping the subject's reminders cancels every auto-miss timer in
\* flight: a timer armed by a loop that has since been stopped never turns a
\* record 'missed', also when reminders were started again in between.
C11_StopCancelsTimers ==
  [][\A k \in 1..Len(timers) :
        (timers[k].gen \in stopped /\ timers[k].pc = "write" /\ timers'[k].pc = "done")
           => ~BecomesMissed(timers[k].log)]_vars

Live(g) == loops[g].pc \notin {"absent", "done"}

Exits(g) == Live(g) /\ loops'[g].pc = "done"

\* C12: when the subject's loop has exited (stop, course no longer active, no
\* slot left) no postponement entry (deadline or original slot time) and no
\* throttle entry of the subject remains in the service's maps.  The deadline
\* that the catch-up sets right after a restart is not counted.
C12_ExitReleasesResources ==
  [][\A g \in 1..MaxStarts : Exits(g) =>
        /\ postponed_orig' = None
        /\ nextGen' = nextGen => postponed_time' = None
        /\ \A s \in ModelSlots : last_reminder_sent'[s] = None]_vars

\* C13: at most one scheduling loop is live for the subject, and it is the
\* registered one: start cancels the previous task before it registers the
\* new one, and after stop no task is registered and none is running.
C13_OneLiveLoop ==
  \A g \in 1..MaxStarts : Live(g) => reminder_tasks = g

\* C13 witness: a second start has replaced a loop that was still running.
C13_Witness ==
  /\ nextGen = 2
  /\ 1 \in stopped
  /\ Live(2)
  /\ firstNotifAt[600] # None

\* C14: a loop that finds the stored course no longer active at the top of an
\* iteration exits, sending no notification and creating no record.
C14_InactiveCourseExits ==
  [][\A g \in 1..MaxStarts :
        (course_status # "active" /\ loops[g].pc = "run" /\ loops'[g] # loops[g])
           => (loops'[g].pc = "done" /\ ~Sent /\ logs' = logs)]_vars

\* C14 witness: the registered loop has exited on its own, with reminders
\* still active and a slot still due, because the course left 'active'.
C14_Witness ==
  /\ course_status # "active"
  /\ active_users
  /\ reminder_tasks # 0
  /\ loops[reminder_tasks].pc = "done"
  /\ get_next_dose_time(FirstDoseTime, logs, now) <= now

\* a terminal record of slot s is stored
HasTerminal(s) == \E j \in 1..Len(logs) : logs[j].sched = s /\ logs[j].status \in Terminal

\* C15: get_next_dose_time returns the earliest overdue slot if there is one,
\* else the earliest slot of the current day later than now, else the first
\* slot of the next day while the current day is before day 25, else nothing.
C15_NextDose ==
  LET day == days_since_start(now)
      due == {s \in UNION {SeqRange(calculate_daily_schedule(first_dose_time, d)) : d \in 1..day} :
                 s <= now /\ ~HasTerminal(s)}
      later == {s \in SeqRange(calculate_daily_schedule(first_dose_time, day)) : s > now}
  IN  get_next_dose_time(first_dose_time, logs, now) =
        IF due # {} THEN SetMin(due)
        ELSE IF later # {} THEN SetMin(later)
        ELSE IF day < MaxCourseDay THEN calculate_daily_schedule(first_dose_time, day + 1)[1]
        ELSE None

\* C16: get_overdue_doses never returns a slot that has a record with the same
\* scheduled time and a terminal status, and never a slot scheduled after now.
C16_OverdueSound ==
  LET r == get_overdue_doses(first_dose_time, logs, now)
  IN  \A i \in 1..Len(r) : r[i] <= now /\ ~HasTerminal(r[i])

\* catch-up was entered on a day that has a resolved slot and a slot still ahead
C16_Witness ==
  /\ overdue_doses # << >>
  /\ overdue_doses = get_overdue_doses(first_dose_time, logs, now)
  /\ \E s \in SeqRange(calculate_daily_schedule(first_dose_time, days_since_start(now))) : HasTerminal(s)
  /\ \E s \in SeqRange(calculate_daily_schedule(first_dose_time, days_since_start(now))) : s > now

\* C17: get_overdue_doses returns every computed slot of days 1..current day
\* that is at or before now and has no terminal record (a record still
\* 'scheduled' does not remove it); on day 3 with no records these are the 12
\* slots of days 1 and 2 and the day-3 slots at or before now.
C17_OverdueComplete ==
  LET r == get_overdue_doses(first_dose_time, logs, now)
      day == days_since_start(now)
  IN  /\ \A d \in 1..day : \A s \in SeqRange(calculate_daily_schedule(first_dose_time, d)) :
            (s <= now /\ ~HasTerminal(s)) => s \in SeqRange(r)
      /\ (day = 3 /\ logs = << >>) =>
            Len(r) = 12 + Cardinality({s \in SeqRange(calculate_daily_schedule(first_dose_time, 3)) : s <= now})

\* day 3, nothing recorded: the loop's query found the 15 overdue slots
C17_Witness ==
  /\ days_since_start(now) = 3
  /\ logs = << >>
  /\ Len(get_overdue_doses(first_dose_time, logs, now)) = 15
  /\ next_dose_time = first_dose_time

\* C18: the list get_overdue_doses returns is strictly ascending by scheduled
\* time, for every first-dose time of day.
C18_OverdueAscending ==
  LET r == get_overdue_doses(first_dose_time, logs, now)
  IN  \A i, j \in 1..Len(r) : i < j => r[i] < r[j]

\* a catch-up answer ('taken' or 'missed') for question k of a running catch-up
CatchupAnswer(k) ==
  /\ catchup_req' # catchup_req
  /\ catchup_req'.kind \in {"taken", "missed"}
  /\ catchup_req'.index = k
  /\ k < Len(overdue_doses)

\* C19: catch-up asks about the overdue slots one at a time, oldest first, and
\* the answer to slot k is stored as a terminal 'taken' or 'missed' record of
\* that slot before the question for slot k+1 is shown.
C19_AnswerStoredInOrder ==
  [][/\ (overdue_doses = << >> /\ overdue_doses' # << >>) =>
           \A i, j \in 1..Len(overdue_doses') : i < j => overdue_doses'[i] < overdue_doses'[j]
     /\ \A k \in 0..1 : CatchupAnswer(k) =>
           \E j \in 1..Len(logs') : /\ logs'[j].sched = overdue_doses[k + 1]
                                     /\ logs'[j].status = catchup_req'.kind]_vars

\* a catch-up postpone query was handled in this step
CatchupPostpone == catchup_req' # catchup_req /\ catchup_req'.kind = "postpone"

C21_NoLoopBeforeCatchupDone ==
  [][/\ overdue_doses' # << >> => \A g \in 1..MaxStarts : loops'[g].pc \in {"absent", "done"}
     /\ nextGen' > nextGen =>
           IF overdue_doses # << >>
             THEN /\ \A i \in 1..(Len(overdue_doses) - 1) : HasTerminal(overdue_doses[i])'
                  /\ \/ HasTerminal(overdue_doses[Len(overdue_doses)])'
                     \/ (catchup_req' # catchup_req /\ catchup_req'.outcome = "accepted")
             ELSE get_overdue_doses(first_dose_time, logs', now) = << >>]_vars

\* C22: the five phases' day ranges partition days 1..25: every such day lies
\* in exactly one phase's range, and get_phase_for_day returns that phase.
C22_PhasesPartition ==
  LET covering == {i \in 1..Len(TABEX_PHASES_CONFIG) :
                     TABEX_PHASES_CONFIG[i].lo <= target_day /\ target_day <= TABEX_PHASES_CONFIG[i].hi}
  IN  /\ Len(TABEX_PHASES_CONFIG) = 5
      /\ target_day \in 1..25 =>
            /\ Cardinality(covering) = 1
            /\ get_phase_for_day(target_day) \in covering
            /\ \A k \in 1..Len(schedule_calls) : schedule_calls[k].phase \in covering

\* the first day of phase 3 was looked up
C22_Witness ==
  /\ target_day = 13
  /\ Len(schedule_calls) > 0
  /\ schedule_calls[1].phase = 3

\* C23: for a day outside 1..25 get_phase_for_day returns none and
\* calculate_daily_schedule returns an empty list.
C23_OutsideRangeEmpty ==
  target_day \notin 1..25 =>
    /\ get_phase_for_day(target_day) = 0
    /\ calculate_daily_schedule(first_dose_time, target_day) = << >>
    /\ \A k \in 1..Len(schedule_calls) :
          schedule_calls[k].phase = 0 /\ schedule_calls[k].slots = << >>

\* day 26 was asked for and the call returned the empty list
C23_Witness ==
  /\ target_day = 26
  /\ Len(schedule_calls) > 0
  /\ schedule_calls[1].slots = << >>

\* the phase whose day range covers the day asked about
CoveringPhase ==
  TABEX_PHASES_CONFIG[CHOOSE i \in 1..Len(TABEX_PHASES_CONFIG) :
                        TABEX_PHASES_CONFIG[i].lo <= target_day /\ target_day <= TABEX_PHASES_CONFIG[i].hi]

\* C24: for every day in 1..25 calculate_daily_schedule returns exactly
\* doses_per_day slots of the covering phase, numbered 1..doses_per_day.
C24_DosesPerDay ==
  target_day \in 1..25 =>
    /\ Len(calculate_daily_schedule(first_dose_time, target_day)) = CoveringPhase.doses_per_day
    /\ \A k \in 1..Len(schedule_calls) :
          /\ Len(schedule_calls[k].slots) = CoveringPhase.doses_per_day
          /\ \A i \in 1..Len(schedule_calls[k].slots) :
                /\ schedule_calls[k].slots[i].dose_number = i
                /\ schedule_calls[k].slots[i].phase = CoveringPhase.phase_number

\* a day of phase 2 was computed for a late first dose: five slots
C24_Witness ==
  /\ target_day = 12
  /\ first_dose_time = 1439
  /\ Len(schedule_calls) > 0
  /\ Len(schedule_calls[1].slots) = 5

\* the scheduled times of the slots a call returned
SlotTimes(call) == [i \in 1..Len(call.slots) |-> call.slots[i].scheduled_time]

\* C25: when all slots of the day fall on one calendar date, slot 1 is the
\* day's date at the first-dose time and every later slot is the previous one
\* plus the phase's interval in whole minutes; day 1 at 08:00 gives 08:00,
\* 10:00, 12:00, 14:00, 16:00, 18:00.
C25_SameDateSlots ==
  \A k \in 1..Len(schedule_calls) :
    LET times == SlotTimes(schedule_calls[k])
    IN  /\ (/\ target_day \in 1..25
            /\ first_dose_time + (CoveringPhase.doses_per_day - 1) * CoveringPhase.interval
                  < MinutesPerDay) =>
              /\ times[1] = (target_day - 1) * MinutesPerDay + first_dose_time
              /\ \A i \in 1..(Len(times) - 1) : times[i + 1] = times[i] + CoveringPhase.interval
        /\ (target_day = 1 /\ first_dose_time = 480) =>
              times = << 480, 600, 720, 840, 960, 1080 >>

\* a day of phase 2 (interval 2.5 h) at 08:00 was computed
C25_Witness ==
  /\ target_day = 4
  /\ first_dose_time = 480
  /\ Len(schedule_calls) > 0
  /\ SlotTimes(schedule_calls[1]) = << 4800, 4950, 5100, 5250, 5400 >>

\* C26: when the first-dose time is late enough that a slot of the day is
\* pushed past midnight, that slot lies on the following calendar date: the
\* day's slots stay strictly increasing and every consecutive gap is still the
\* phase's interval in whole minutes.
C26_PastMidnightSlots ==
  \A k \in 1..Len(schedule_calls) :
    LET times == SlotTimes(schedule_calls[k])
    IN  (/\ target_day \in 1..25
         /\ first_dose_time + (CoveringPhase.doses_per_day - 1) * CoveringPhase.interval
               >= MinutesPerDay) =>
           /\ times[Len(times)] >= target_day * MinutesPerDay
           /\ \A i \in 1..(Len(times) - 1) : times[i + 1] = times[i] + CoveringPhase.interval

\* C27 as stated: two calls of calculate_daily_schedule with the same course,
\* first-dose time and day return identical lists, whatever the current time
\* at each call.
C27_IdenticalLists ==
  \A j, k \in 1..Len(schedule_calls) : schedule_calls[j].slots = schedule_calls[k].slots

\* C27 amended: the two lists agree in every slot's dose number, scheduled
\* time, phase and day; the is_overdue flag is the only field that depends on
\* the current time of the call.
C27_IdenticalSlots ==
  \A j, k \in 1..Len(schedule_calls) :
    /\ Len(schedule_calls[j].slots) = Len(schedule_calls[k].slots)
    /\ \A i \in 1..Len(schedule_calls[j].slots) :
          [schedule_calls[j].slots[i] EXCEPT !.is_overdue = FALSE] =
          [schedule_calls[k].slots[i] EXCEPT !.is_overdue = FALSE]

\* day 1 was computed before and after its 08:00 slot came due
C27_Witness ==
  /\ Len(schedule_calls) = 2
  /\ schedule_calls[1].at < schedule_calls[2].at
  /\ Len(schedule_calls[1].slots) > 0
  /\ ~schedule_calls[1].slots[1].is_overdue
  /\ schedule_calls[2].slots[1].is_overdue

\* the text handle_dose_taken / handle_dose_skip return once the subject and
\* the course were read: the character's reply, whether or not a record of the
\* slot was found
dose_response(h) ==
  IF h.kind = "taken" THEN "dose_taken_response" ELSE "dose_skip_response"

\* the handler of a pressed button found no record of the slot it names
NoRecordCall == handler.kind \in {"taken", "skip"} /\ handler.log = 0

\* C28: an acknowledge or decline call naming a slot without a dose record is
\* answered "not found" and changes nothing: no record is created or modified,
\* and neither the throttle entries nor the postponement change.
C28_NoRecordNoChange ==
  [][(NoRecordCall /\ handler'.kind = "none")
       => /\ dose_response(handler) = "not_found"
          /\ logs' = logs
          /\ last_reminder_sent' = last_reminder_sent
          /\ postponed_time' = postponed_time
          /\ postponed_orig' = postponed_orig]_vars

\* ------------------------------------ the loop with failing collaborators
\* the position of a loop that left the while through `except Exception`
RaisedLoop == [NoLoop EXCEPT !.pc = "raised"]

\* a read at the top of an iteration raises (treatment_repo.get_by_id or
\* tabex_repo.get_logs_by_course_id re-raise a store error): the exception
\* leaves the while and is logged by the handler around it
reminder_loop_iter_raises(g) ==
  /\ loops[g].pc = "run"
  /\ loops[g].wake <= now
  /\ active_users
  /\ loops' = [loops EXCEPT ![g] = RaisedLoop]
  /\ UNCHANGED << now, t0, course_status, sched, svc, logs, nextGen, timers, handler, acts, hist >>

\* a throttle entry written only after a delivery that succeeded; C36 does not
\* hold with it
throttle_after_failure_unset(throttle, dose, at) == throttle

\* the loop cannot tell a failed _send_dose_reminder from a successful one:
\* the throttle entry of the slot is written all the same
throttle_after_failure(throttle, dose, at) == [throttle EXCEPT ![dose] = at]

\* the delivery (or the read before it) raises inside _send_dose_reminder: it
\* is logged there, nothing is sent and no record is created; the loop goes on
\* with the throttle entry, the auto-miss timer of a first notification, sleep(60)
send_dose_reminder_raises(g) ==
  /\ loops[g].pc = "send"
  /\ last_reminder_sent' = throttle_after_failure(last_reminder_sent, loops[g].dose, loops[g].at)
  /\ timers' = IF arms_auto_miss(loops[g])
                 THEN Append(timers, NewTimer(g, loops[g].dose))
                 ELSE timers
  /\ loops' = [loops EXCEPT ![g] = Sleeping(now + LoopSleepMinutes)]
  /\ UNCHANGED << now, t0, course_status, sched, active_users, reminder_tasks, postponed_time, postponed_orig,
                  logs, nextGen, handler, acts, hist >>

\* create_log raises after the message was delivered: logged inside
\* _send_dose_reminder, the loop goes on as after a send
create_log_raises(g) ==
  /\ loops[g].pc = "create"
  /\ last_reminder_sent' = [last_reminder_sent EXCEPT ![loops[g].dose] = loops[g].at]
  /\ timers' = IF arms_auto_miss(loops[g])
                 THEN Append(timers, NewTimer(g, loops[g].dose))
                 ELSE timers
  /\ loops' = [loops EXCEPT ![g] = Sleeping(now + LoopSleepMinutes)]
  /\ UNCHANGED << now, t0, course_status, sched, active_users, reminder_tasks, postponed_time, postponed_orig,
                  logs, nextGen, handler, acts, hist >>

FailNext ==
  \/ Next
  \/ \E g \in 1..MaxStarts : reminder_loop_iter_raises(g)
  \/ \E g \in 1..MaxStarts : send_dose_reminder_raises(g)
  \/ \E g \in 1..MaxStarts : create_log_raises(g)

\* the program is started a minute before the 10:00 slot, so that the throttle
\* window of an attempt at 10:00 ends inside the explored window, or at 10:52,
\* so that the auto-miss time of that slot does
FailStartTimes == {599, 652}

FailInit == InitAt(FailStartTimes)

FailSpec == FailInit /\ [][FailNext]_vars

\* C29: a transient collaborator failure inside a loop iteration never ends the
\* subject's scheduling loop: no loop is ever left through a raised failure.
C29_FailureKeepsLoop ==
  \A g \in 1..MaxStarts : loops[g].pc # "raised"

\* ------------------------------------------------- registration and courses
MaxCourses == 3

\* one subject's scheduling state
core == << now, t0, course_status, svc, logs, loops, nextGen, timers, handler, acts, hist,
           first_dose_time, overdue_doses, next_dose_time, catchup_req, catchup_buttons,
           target_day, schedule_calls, current_phase >>

\* everything but the registration state
engine == << core, multi >>

\* TreatmentCourse(user_id, status = 'active')
TreatmentCourse(u) == [user |-> u, status |-> "active"]

\* the place of a deleted row: AUTOINCREMENT does not hand its course_id out again
DeletedCourse == [user |-> 0, status |-> "deleted"]

\* TreatmentRepository.get_active_by_user_id: the indexes of the active rows
get_active_by_user_id(rows, u) ==
  {c \in 1..Len(rows) : rows[c].user = u /\ rows[c].status = "active"}

\* start_command's branch for a registered user: a new course only if
\* get_active_by_user_id found none
start_existing_user(rows, u) ==
  IF get_active_by_user_id(rows, u) # {} THEN rows ELSE Append(rows, TreatmentCourse(u))

\* the scheduling state before anything has happened
EngineIdle ==
  /\ current_phase = InitialPhase
  /\ now = 0
  /\ t0 = 0
  /\ course_status = "active"
  /\ active_users = FALSE
  /\ reminder_tasks = 0
  /\ postponed_time = None
  /\ postponed_orig = None
  /\ last_reminder_sent = [s \in ModelSlots |-> None]
  /\ logs = << >>
  /\ loops = [g \in 1..MaxStarts |-> NoLoop]
  /\ nextGen = 0
  /\ timers = << >>
  /\ handler = NoHandler
  /\ acts = 0
  /\ notified = [gen |-> 0, dose |-> None, kind |-> "none", at |-> None]
  /\ nflip = FALSE
  /\ lastNotifAt = [s \in ModelSlots |-> None]
  /\ lastNotifGen = [s \in ModelSlots |-> 0]
  /\ firstNotifAt = [s \in ModelSlots |-> None]
  /\ lastPostponeAt = [s \in ModelSlots |-> None]
  /\ stopped = {}
  /\ first_dose_time = FirstDoseTime
  /\ overdue_doses = << >>
  /\ next_dose_time = None
  /\ catchup_req = NoRequest
  /\ catchup_buttons = {}
  /\ target_day = 1
  /\ schedule_calls = << >>

CourseInit ==
  /\ RegIdle
  /\ MultiIdle
  /\ EngineIdle

\* /start: a registered user with an active course gets a message, one without
\* gets a new course, an unknown user gets the gender keyboard
start_command(u) ==
  /\ IF u \in users
       THEN /\ Len(courses) < MaxCourses \/ get_active_by_user_id(courses, u) # {}
            /\ courses' = start_existing_user(courses, u)
            /\ UNCHANGED << users, gender_buttons >>
       ELSE /\ gender_buttons' = gender_buttons \cup {u}
            /\ UNCHANGED << users, courses >>
  /\ UNCHANGED engine

\* a gender button of the keyboard sent to subject b, pressed by subject u:
\* rejected for another subject's keyboard; user_repo.create raises for a
\* registered user and nothing is created; else the user and an active course
_handle_gender_selection(u, b) ==
  /\ b \in gender_buttons
  /\ IF u # b \/ u \in users
       THEN UNCHANGED << users, courses >>
       ELSE /\ Len(courses) < MaxCourses
            /\ users' = users \cup {u}
            /\ courses' = Append(courses, TreatmentCourse(u))
  /\ UNCHANGED << gender_buttons, engine >>

\* TreatmentRepository._update_status(course_id, status)
update_course_status(c, status) ==
  /\ c \in 1..Len(courses)
  /\ courses' = IF courses[c] = DeletedCourse
                  THEN courses
                  ELSE [courses EXCEPT ![c].status = status]
  /\ UNCHANGED << users, gender_buttons, engine >>

complete_course(c) == update_course_status(c, "completed")

fail_course(c) == update_course_status(c, "failed")

pause_course(c) == update_course_status(c, "paused")

resume_course(c) == update_course_status(c, "active")

\* the confirmed /quit: the subject's courses and user row are deleted
handle_deletion_confirmation(u) ==
  /\ u \in users
  /\ courses' = [c \in 1..Len(courses) |->
                   IF courses[c].user = u THEN DeletedCourse ELSE courses[c]]
  /\ users' = users \ {u}
  /\ UNCHANGED << gender_buttons, engine >>

CourseNext ==
  \/ \E u \in Subjects : start_command(u)
  \/ \E u, b \in Subjects : _handle_gender_selection(u, b)
  \/ \E c \in 1..MaxCourses : complete_course(c)
  \/ \E c \in 1..MaxCourses : fail_course(c)
  \/ \E c \in 1..MaxCourses : pause_course(c)
  \/ \E c \in 1..MaxCourses : resume_course(c)
  \/ \E u \in Subjects : handle_deletion_confirmation(u)

CourseSpec == CourseInit /\ [][CourseNext]_vars

\* the active courses of a subject
ActiveCourses(u) == get_active_by_user_id(courses, u)

\* C30: in every reachable state each subject has at most one course with
\* status 'active', under any interleaving of /start, gender selection and
\* course status changes.
C30_OneActiveCourse ==
  \A u \in Subjects : Cardinality(ActiveCourses(u)) <= 1

\* --------------------------------------------------------- the stored phase
\* the loop's record of the due slot it found is created in this step
LoopRecordCreated ==
  /\ Len(logs') > Len(logs)
  /\ logs'[Len(logs')].sched = next_dose_time
  /\ acts' = acts + 1

\* C31: the stored current phase equals the phase the elapsed day maps to once
\* the loop has made its pass: when the loop's dose record is created, the
\* stored phase is the phase of the day (1 on day 3, 2 from day 4 on) and the
\* new record carries it.
C31_StoredPhaseFollowsDay ==
  [][LoopRecordCreated
       => /\ current_phase' = get_phase_for_day(days_since_start(now))
          /\ logs'[Len(logs')].phase = get_phase_for_day(days_since_start(now))]_vars

\* ------------------------------------------------- dose actions and status
\* a step of an acknowledge, a decline, a postponement or an auto-miss write
DoseAction ==
  \/ handler' # handler
  \/ lastPostponeAt' # lastPostponeAt
  \/ TimerWrites

\* C32: no dose action (acknowledge, decline, postpone, auto-miss) changes the
\* course's status, however many missed and skipped records the course has.
C32_DoseActionKeepsStatus ==
  [][DoseAction => course_status' = course_status]_vars

\* a decline has just been counted with a missed record already stored and the
\* course is still active
C32_Witness ==
  /\ missed_count(logs) >= 2
  /\ \E i \in 1..Len(logs) : logs[i].status = "skipped"
  /\ \E i \in 1..Len(logs) : logs[i].status = "missed"
  /\ course_status = "active"

\* ------------------------------------------------------------ fresh loops
\* start_reminders_for_user has just created a loop
LoopStarted == nextGen' > nextGen

SelectionCurrent == next_dose_time = get_next_dose_time(first_dose_time, logs, now)

\* the due slots before slot s that have no terminal record
EarlierOpenSlots(s) ==
  {e \in SeqRange(PastSlots(first_dose_time, now)) : e < s /\ ~HasTerminal(e)}

PostponedSent == Sent /\ notified'.kind = "postponed"

\* C35: when the deadline of a pending postponement has elapsed, the postponed
\* notification identifies the slot that was postponed (its buttons carry a
\* slot of the course, due and not yet resolved when it was postponed) and
\* the pending postponement is cleared, for a postponement set from a live
\* reminder and for one set at the end of catch-up.
C35_PostponedNamesSlot ==
  [][PostponedSent
       => /\ notified'.dose \in ModelSlots
          /\ postponed_time' = None
          /\ postponed_orig' = None]_vars

\* ------------------------------------------------------ a failed delivery
\* loop g comes back from a _send_dose_reminder that delivered nothing
DeliveryFailed(g) == loops[g].pc = "send" /\ loops'[g].pc = "run" /\ ~Sent

\* loop g selects a slot and enters _send_dose_reminder
Attempts(g) == loops[g].pc = "run" /\ loops'[g].pc = "send"

\* C36: after a failed delivery for a slot the engine does not retry at once:
\* the slot, unless it was resolved meanwhile, remains the next due slot, the
\* loop does not want to send on its next pass, and it attempts a slot again
\* only when no attempt for that slot was made in the last 15 minutes.
C36_RetryAfterThrottle ==
  [][\A g \in 1..MaxStarts :
       /\ DeliveryFailed(g)
            => /\ ~HasTerminal(loops[g].dose)
                    => loop_next_dose(last_reminder_sent', logs', now') = loops[g].dose
               /\ ~can_send_reminder(last_reminder_sent'[loops[g].dose], now')
       /\ Attempts(g)
            => can_send_reminder(last_reminder_sent[loops'[g].dose], now)]_vars

\* the loop attempts a slot again 15 minutes after a delivery that failed
C36_Witness ==
  \E g \in 1..MaxStarts :
    /\ loops[g].pc = "send"
    /\ firstNotifAt[loops[g].dose] = None
    /\ last_reminder_sent[loops[g].dose] # None
    /\ now - last_reminder_sent[loops[g].dose] >= ThrottleMinutes

\* ------------------------------------------------- the loop under fairness
\* A specification of one subject's loop that keeps running: the program is
\* started once and never stopped, the course stays active, deliveries may
\* fail, the subject may or may not respond. The asyncio event loop runs every
\* task that is ready, and the clock goes on when none is.
LiveStartTimes == {652}

LiveInit == InitAt(LiveStartTimes)

\* the one start of the program
start_program ==
  /\ nextGen = 0
  /\ \E pp \in BOOLEAN : start_reminders_for_user(pp)

\* a step of the _reminder_loop task
LoopStep ==
  \E g \in 1..MaxStarts :
    \/ reminder_loop_iter(g)
    \/ send_dose_reminder(g)
    \/ send_dose_reminder_raises(g)
    \/ send_dose_reminder_done(g)

\* a step of a _schedule_auto_miss task
TimerStep ==
  \E k \in 1..Len(timers) :
    \/ schedule_auto_miss_start(k)
    \/ schedule_auto_miss_wake(k)
    \/ schedule_auto_miss_write(k)

\* the subject presses a button of a notification
SubjectStep ==
  \E s \in ModelSlots :
    \/ handle_dose_taken(s)
    \/ handle_dose_skip(s)
    \/ handle_dose_postpone(s)

LiveNext ==
  \/ start_program
  \/ LoopStep
  \/ TimerStep
  \/ SubjectStep
  \/ handle_dose_finish
  \/ Tick

\* the same loop without assumptions on scheduling, started at the instants of
\* FailStartTimes
RetrySpec == FailInit /\ [][LiveNext]_vars

LiveSpec ==
  /\ LiveInit
  /\ [][LiveNext]_vars
  /\ WF_vars(LoopStep)
  /\ WF_vars(TimerStep)
  /\ WF_vars(handle_dose_finish)
  /\ WF_vars(Tick)

\* the loop is inside _send_dose_reminder for slot s
Attempted(s) == \E g \in 1..MaxStarts : loops[g].pc = "send" /\ loops[g].dose = s

Digit == << "0", "1", "2", "3", "4", "5", "6", "7", "8", "9" >>

\* str(n) of a non-negative integer
RECURSIVE str(_)
str(n) == IF n < 10 THEN << Digit[n + 1] >> ELSE str(n \div 10) \o << Digit[(n % 10) + 1] >>

\* the action word of a button
Word(action) ==
  CASE action = "taken"    -> << "t", "a", "k", "e", "n" >>
    [] action = "postpone" -> << "p", "o", "s", "t", "p", "o", "n", "e" >>
    [] action = "skip"     -> << "s", "k", "i", "p" >>

DoseActions == {"taken", "postpone", "skip"}

\* f"dose_{action}_{course_id}_{timestamp}"
callback_data(action, course_id, timestamp) ==
  << "d", "o", "s", "e", "_" >> \o Word(action) \o << "_" >> \o str(course_id)
     \o << "_" >> \o str(timestamp)

\* int(dose_time.timestamp()), in seconds since the start date's midnight
timestamp_of(dose_time) == dose_time * 60

DoseButton(action, course_id, timestamp) ==
  [action |-> action, course_id |-> course_id, timestamp |-> timestamp,
   callback_data |-> callback_data(action, course_id, timestamp)]

\* the three buttons of a reminder of the slot at dose_time
_create_dose_keyboard(course_id, dose_time) ==
  {DoseButton(a, course_id, timestamp_of(dose_time)) : a \in DoseActions}

\* text.split('_')
RECURSIVE split(_)
split(text) ==
  LET at == {i \in 1..Len(text) : text[i] = "_"}
  IN  IF at = {}
        THEN << text >>
        ELSE LET i == SetMin(at)
             IN  << SubSeq(text, 1, i - 1) >> \o split(SubSeq(text, i + 1, Len(text)))

\* text.startswith(prefix)
startswith(text, prefix) ==
  Len(text) >= Len(prefix) /\ SubSeq(text, 1, Len(prefix)) = prefix

\* whether int(text) returns: a non-empty run of digits (no piece of a split
\* text holds an underscore, a sign or a blank)
is_int(text) == Len(text) > 0 /\ \A i \in 1..Len(text) : text[i] \in SeqRange(Digit)

DigitValue(ch) == CHOOSE d \in 0..9 : Digit[d + 1] = ch

\* int(text) of a run of digits
RECURSIVE int(_)
int(text) ==
  IF Len(text) = 1
    THEN DigitValue(text[1])
    ELSE 10 * int(SubSeq(text, 1, Len(text) - 1)) + DigitValue(text[Len(text)])

\* the number of pieces _handle_dose_taken, _handle_dose_postpone and
\* _handle_dose_skip require of a split payload
ExpectedParts == 3

\* _handle_dose_taken / _handle_dose_postpone / _handle_dose_skip: the payload
\* is split and checked, parts[1] and parts[2] are converted, the service is called
_handle_dose(action, button) ==
  LET parts == split(button.callback_data)
  IN  IF Len(parts) # ExpectedParts
        THEN [button |-> button, outcome |-> "rejected", handler |-> action,
              course_id |-> None, timestamp |-> None]
      ELSE IF ~is_int(parts[2]) \/ ~is_int(parts[3])
        THEN [button |-> button, outcome |-> "exception", handler |-> action,
              course_id |-> None, timestamp |-> None]
      ELSE [button |-> button, outcome |-> "service", handler |-> action,
            course_id |-> int(parts[2]), timestamp |-> int(parts[3])]

\* handle_callback_query: the dispatch on the payload's prefix
dispatch(button) ==
  LET data == button.callback_data
  IN  IF startswith(data, << "d", "o", "s", "e", "_" >> \o Word("taken") \o << "_" >>)
        THEN _handle_dose("taken", button)
      ELSE IF startswith(data, << "d", "o", "s", "e", "_" >> \o Word("postpone") \o << "_" >>)
        THEN _handle_dose("postpone", button)
      ELSE IF startswith(data, << "d", "o", "s", "e", "_" >> \o Word("skip") \o << "_" >>)
        THEN _handle_dose("skip", button)
      ELSE [button |-> button, outcome |-> "unknown", handler |-> "none",
            course_id |-> None, timestamp |-> None]

\* the course ids reminders are sent for
PayloadCourses == {1, 7, 12}

PayloadInit ==
  /\ RegIdle
  /\ MultiIdle
  /\ EngineIdle

\* _send_dose_reminder sends the keyboard of a slot of a course
send_keyboard(course_id, dose_time) ==
  /\ keyboard' = _create_dose_keyboard(course_id, dose_time)
  /\ UNCHANGED << delivered, reg, core, crowd >>

\* the subject presses a button of the keyboard: handle_callback_query
handle_callback_query(button) ==
  /\ button \in keyboard
  /\ delivered' = dispatch(button)
  /\ UNCHANGED << keyboard, reg, core, crowd >>

PayloadNext ==
  \/ \E c \in PayloadCourses, d \in ModelSlots : send_keyboard(c, d)
  \/ \E b \in keyboard : handle_callback_query(b)

PayloadSpec == PayloadInit /\ [][PayloadNext]_vars

\* C38: every callback payload the reminder keyboard generates for a slot is
\* accepted by the matching callback handler and reaches the reminder service
\* with the course id and the slot timestamp that were encoded.
C38_PayloadRoundTrip ==
  delivered.outcome # "none"
    => /\ delivered.outcome = "service"
       /\ delivered.handler = delivered.button.action
       /\ delivered.course_id = delivered.button.course_id
       /\ delivered.timestamp = delivered.button.timestamp

\* ====================================================== several subjects
\* A specification of the service used by two subjects, each with one course:
\* whose records and whose entries of the service's maps an operation touches.
\* treatment_courses.user_id of a course
course_user(c) == IF c = 1 THEN 1 ELSE 12

\* get_active_by_user_id: the subject's own course
user_course(u) == CHOOSE c \in CrowdCourses : course_user(c) = u

\* f"{user_id}_{dose_timestamp}"
dose_key(u, s) == str(u) \o << "_" >> \o str(timestamp_of(s))

\* the keys stop_reminders_for_user removes: key.startswith(f"{user_id}_")
keys_to_remove(keys, u) == {k \in keys : startswith(k, str(u) \o << "_" >>)}

\* history: subject u issued an operation naming course c
Issued(u, c) == [user |-> u, course |-> c, flip |-> ~caller.flip]

\* the record found by _find_log_by_course_and_time, marked taken / skipped
crowd_mark(rows, c, s, status) ==
  IF rows[c][s] = "none" THEN rows ELSE [rows EXCEPT ![c][s] = status]

CrowdInit ==
  /\ RegIdle
  /\ MultiIdle
  /\ EngineIdle

\* start_reminders_for_user(user_id): stop, then the new task
crowd_start(u) ==
  /\ user_tasks' = user_tasks \cup {u}
  /\ postponed_reminders' = postponed_reminders \ {u}
  /\ sent_keys' = sent_keys \ keys_to_remove(sent_keys, u)
  /\ caller' = Issued(u, 0)
  /\ UNCHANGED << tabex_logs, reg, core, payload >>

\* stop_reminders_for_user(user_id)
crowd_stop(u) ==
  /\ user_tasks' = user_tasks \ {u}
  /\ postponed_reminders' = postponed_reminders \ {u}
  /\ sent_keys' = sent_keys \ keys_to_remove(sent_keys, u)
  /\ caller' = Issued(u, 0)
  /\ UNCHANGED << tabex_logs, reg, core, payload >>

\* the loop of subject u notifies slot s of u's course: the record, the
\* throttle entry
crowd_notify(u, s) ==
  /\ u \in user_tasks
  /\ u \notin postponed_reminders
  /\ tabex_logs[user_course(u)][s] \in {"none", "scheduled"}
  /\ tabex_logs' = [tabex_logs EXCEPT ![user_course(u)][s] = "scheduled"]
  /\ sent_keys' = sent_keys \cup {dose_key(u, s)}
  /\ UNCHANGED << user_tasks, postponed_reminders, caller, reg, core, payload >>

\* the loop of subject u sends the postponed reminder
crowd_postponed_notice(u) ==
  /\ u \in user_tasks
  /\ u \in postponed_reminders
  /\ postponed_reminders' = postponed_reminders \ {u}
  /\ UNCHANGED << tabex_logs, user_tasks, sent_keys, caller, reg, core, payload >>

\* handle_dose_taken(user_id, course_id, dose_timestamp): user and course are
\* looked up separately, the record is found by course_id and time
crowd_dose_taken(u, c, s) ==
  /\ tabex_logs' = crowd_mark(tabex_logs, c, s, "taken")
  /\ sent_keys' = sent_keys \ {dose_key(u, s)}
  /\ caller' = Issued(u, c)
  /\ UNCHANGED << user_tasks, postponed_reminders, reg, core, payload >>

\* handle_dose_skip(user_id, course_id, dose_timestamp)
crowd_dose_skip(u, c, s) ==
  /\ tabex_logs' = crowd_mark(tabex_logs, c, s, "skipped")
  /\ sent_keys' = sent_keys \ {dose_key(u, s)}
  /\ caller' = Issued(u, c)
  /\ UNCHANGED << user_tasks, postponed_reminders, reg, core, payload >>

\* handle_dose_postpone(user_id, course_id, dose_timestamp)
crowd_dose_postpone(u, c, s) ==
  /\ postponed_reminders' = postponed_reminders \cup {u}
  /\ sent_keys' = sent_keys \ {dose_key(u, s)}
  /\ caller' = Issued(u, c)
  /\ UNCHANGED << tabex_logs, user_tasks, reg, core, payload >>

CrowdNext ==
  \/ \E u \in CrowdUsers : crowd_start(u)
  \/ \E u \in CrowdUsers : crowd_stop(u)
  \/ \E u \in CrowdUsers, s \in CrowdSlots : crowd_notify(u, s)
  \/ \E u \in CrowdUsers : crowd_postponed_notice(u)
  \/ \E u \in CrowdUsers, c \in CrowdCourses, s \in CrowdSlots : crowd_dose_taken(u, c, s)
  \/ \E u \in CrowdUsers, c \in CrowdCourses, s \in CrowdSlots : crowd_dose_skip(u, c, s)
  \/ \E u \in CrowdUsers, c \in CrowdCourses, s \in CrowdSlots : crowd_dose_postpone(u, c, s)

CrowdSpec == CrowdInit /\ [][CrowdNext]_vars

\* subject a issues an operation in this step
IssuedBy(a) == caller'.flip # caller.flip /\ caller'.user = a

\* nothing of subject b changes in this step: the records of b's course, b's
\* task, b's pending postponement, b's throttle entries
Untouched(b) ==
  /\ tabex_logs'[user_course(b)] = tabex_logs[user_course(b)]
  /\ (b \in user_tasks') = (b \in user_tasks)
  /\ (b \in postponed_reminders') = (b \in postponed_reminders)
  /\ \A s \in CrowdSlots : (dose_key(b, s) \in sent_keys') = (dose_key(b, s) \in sent_keys)

\* C39: an acknowledge, decline, postpone or stop issued by subject A never
\* changes a dose record of a course owned by another subject B, nor B's
\* scheduling task, pending postponement or throttle entries.
C39_SubjectsIsolated ==
  [][\A a \in CrowdUsers : IssuedBy(a) => \A b \in CrowdUsers \ {a} : Untouched(b)]_vars

====
